---------------------------- MODULE Spec2Model ----------------------------
(***************************************************************************)
(* Model of scripts/split-conversations.py: the loader, the timestamp      *)
(* resolution, the bucketing chain, the minimizer and the emission loop of *)
(* split_conversations_by_time, and the two calls of __main__.             *)
(*                                                                         *)
(* JSON values are tagged records.  Strings are run-length sequences of    *)
(* <<character, count>> so that the program's 5000 and 100 character       *)
(* limits keep their values.  Integers wider than 32 bits (epoch           *)
(* milliseconds, the 1e12 threshold) are pairs <<hi, lo>> in base 10^6.    *)
(* Points in time are milliseconds since the epoch, UTC.                   *)
(***************************************************************************)
EXTENDS Integers, Sequences, FiniteSets, TLC

VARIABLES
    call,           \* which call of __main__ is current: 1, 2; 3 = after both
    pc,             \* position inside the current call
    dirs,           \* per pair: does the export directory / the split directory exist
    files,          \* per pair and bucket: the bucket file's content
    conversations,  \* the variable `conversations` of the current call
    now,            \* datetime.now(timezone.utc) captured by the current call
    buckets,        \* the four lists of the current call
    i,              \* index of the next record of the classification loop
    b,              \* index of the next bucket of the emission loop
    data,           \* json.load's result in the current call
    status          \* per call: how it ended

vars == <<call, pc, dirs, files, data, conversations, now, buckets, i, b, status>>

-----------------------------------------------------------------------------
(* Bounds of the model *)

\* longest conversation list a document of the model holds
MaxConvs == 2

-----------------------------------------------------------------------------
(* Wide integers: <<hi, lo>> stands for hi * 10^6 + lo, 0 <= lo < 10^6 *)

Base == 1000 * 1000

BigLT(x, y) == x[1] < y[1] \/ (x[1] = y[1] /\ x[2] < y[2])

BigGE(x, y) == ~BigLT(x, y)

BigGT(x, y) == BigLT(y, x)

BigAdd(x, y) ==
    LET lo == x[2] + y[2]
    IN  <<x[1] + y[1] + (lo \div Base), lo % Base>>

BigSub(x, y) ==
    LET lo == x[2] - y[2]
    IN  <<x[1] - y[1] + (lo \div Base), lo % Base>>

\* x * 1000 (seconds to milliseconds)
BigMul1000(x) ==
    LET lo == x[2] * 1000
    IN  <<x[1] * 1000 + (lo \div Base), lo % Base>>

\* timedelta(days=n) in milliseconds: n * 86 400 000 = (n * 86.4) * 10^6
timedelta(n) == <<n * 86 + ((n * 4) \div 10), ((n * 4) % 10) * 100000>>

-----------------------------------------------------------------------------
(* Strings: canonical run-length sequences *)

RECURSIVE SLen(_)
SLen(s) == IF s = <<>> THEN 0 ELSE s[1][2] + SLen(Tail(s))

\* mutant: one character more, s[:k + 1]
RECURSIVE SliceInclusive(_, _)
SliceInclusive(s, k) ==
    IF s = <<>> \/ k < 0 THEN <<>>
    ELSE IF s[1][2] > k THEN <<<<s[1][1], k + 1>>>>
    ELSE <<s[1]>> \o SliceInclusive(Tail(s), k - s[1][2])

\* s[:k]
RECURSIVE Slice(_, _)
Slice(s, k) ==
    IF s = <<>> \/ k <= 0 THEN <<>>
    ELSE IF s[1][2] >= k THEN <<<<s[1][1], k>>>>
    ELSE <<s[1]>> \o Slice(Tail(s), k - s[1][2])

\* s + u
Concat(s, u) ==
    IF s = <<>> THEN u
    ELSE IF u = <<>> THEN s
    ELSE IF s[Len(s)][1] = u[1][1]
         THEN SubSeq(s, 1, Len(s) - 1)
              \o <<<<u[1][1], s[Len(s)][2] + u[1][2]>>>> \o Tail(u)
    ELSE s \o u

\* the characters of a string, one by one
RECURSIVE Expand(_)
Expand(s) ==
    IF s = <<>> THEN <<>>
    ELSE IF s[1][2] = 1 THEN <<s[1][1]>> \o Expand(Tail(s))
    ELSE <<s[1][1]>> \o Expand(<<<<s[1][1], s[1][2] - 1>>>> \o Tail(s))

\* the string of a sequence of characters
RECURSIVE Lit(_)
Lit(cs) == IF cs = <<>> THEN <<>> ELSE Concat(<<<<cs[1], 1>>>>, Lit(Tail(cs)))

\* s.strip() is not empty
StripNonEmpty(s) == \E k \in 1..Len(s) : s[k][1] \notin {" ", "\t", "\n"}

-----------------------------------------------------------------------------
(* JSON values as json.load returns them *)

Null == [t |-> "null"]
Bool(v) == [t |-> "bool", b |-> v]
Num(n) == [t |-> "num", n |-> n]
Str(s) == [t |-> "str", s |-> s]
List(l) == [t |-> "list", l |-> l]
\* a dict is the sequence of its <<key, value>> items in document order
Dict(d) == [t |-> "dict", d |-> d]

\* a JSON integer below 10^6
Small(k) == Num(<<0, k>>)

\* the str of a sequence of characters
S(cs) == Str(Lit(cs))

-----------------------------------------------------------------------------
(* Python's operations on these values.  An operation that can raise       *)
(* returns [raise |-> TRUE, exc |-> name] or [raise |-> FALSE, v |-> value] *)

Ok(v) == [raise |-> FALSE, v |-> v]
Raise(e) == [raise |-> TRUE, exc |-> e]

\* bool(v), the test of `if not v`
Truthy(v) ==
    CASE v.t = "null" -> FALSE
      [] v.t = "bool" -> v.b
      [] v.t = "num"  -> v.n # <<0, 0>>
      [] v.t = "str"  -> v.s # <<>>
      [] v.t = "list" -> v.l # <<>>
      [] v.t = "dict" -> v.d # <<>>

\* the characters of the keys the program looks up and of the keys the
\* model's documents use
KeyChars(k) ==
    CASE k = "create_time" -> <<"c","r","e","a","t","e","_","t","i","m","e">>
      [] k = "created_at" -> <<"c","r","e","a","t","e","d","_","a","t">>
      [] k = "timestamp" -> <<"t","i","m","e","s","t","a","m","p">>
      [] k = "created" -> <<"c","r","e","a","t","e","d">>
      [] k = "date" -> <<"d","a","t","e">>
      [] k = "updated_at" -> <<"u","p","d","a","t","e","d","_","a","t">>
      [] k = "update_time" -> <<"u","p","d","a","t","e","_","t","i","m","e">>
      [] k = "metadata" -> <<"m","e","t","a","d","a","t","a">>
      [] k = "mapping" -> <<"m","a","p","p","i","n","g">>
      [] k = "messages" -> <<"m","e","s","s","a","g","e","s">>
      [] k = "items" -> <<"i","t","e","m","s">>
      [] k = "content" -> <<"c","o","n","t","e","n","t">>
      [] k = "conversations" ->
            <<"c","o","n","v","e","r","s","a","t","i","o","n","s">>
      [] k = "title" -> <<"t","i","t","l","e">>
      [] k = "id" -> <<"i","d">>
      [] k = "n1" -> <<"n","1">>
      [] k = "n2" -> <<"n","2">>
      [] k = "version" -> <<"v","e","r","s","i","o","n">>
      [] k = "chats" -> <<"c","h","a","t","s">>
      [] k = "archive" -> <<"a","r","c","h","i","v","e">>

\* needle occurs in hay (sequences of characters)
IsSubstring(needle, hay) ==
    \E k \in 0..(Len(hay) - Len(needle)) :
        SubSeq(hay, k + 1, k + Len(needle)) = needle

HasKey(v, k) == \E j \in 1..Len(v.d) : v.d[j][1] = k

\* d[k] of a dict that has the key
Item(v, k) == v.d[CHOOSE j \in 1..Len(v.d) : v.d[j][1] = k][2]

\* `k in v`
Contains(k, v) ==
    CASE v.t = "dict" -> Ok(HasKey(v, k))
      [] v.t = "list" -> Ok(\E j \in 1..Len(v.l) : v.l[j] = S(KeyChars(k)))
      [] v.t = "str"  -> Ok(IsSubstring(KeyChars(k), Expand(v.s)))
      [] OTHER -> Raise("TypeError")

\* v[k] for a str key k
Subscript(v, k) ==
    CASE v.t = "dict" -> IF HasKey(v, k) THEN Ok(Item(v, k)) ELSE Raise("KeyError")
      [] OTHER -> Raise("TypeError")

\* v.get(k, default)
Get(v, k, default) ==
    IF v.t = "dict"
    THEN Ok(IF HasKey(v, k) THEN Item(v, k) ELSE default)
    ELSE Raise("AttributeError")

\* len(v)
PyLen(v) ==
    CASE v.t = "list" -> Ok(Len(v.l))
      [] v.t = "dict" -> Ok(Len(v.d))
      [] v.t = "str"  -> Ok(SLen(v.s))
      [] OTHER -> Raise("TypeError")

\* list(v): the elements a for loop over v visits (v has a len)
Elements(v) ==
    CASE v.t = "list" -> v.l
      [] v.t = "dict" -> [j \in 1..Len(v.d) |-> S(KeyChars(v.d[j][1]))]
      [] v.t = "str"  -> [j \in 1..SLen(v.s) |-> S(<<Expand(v.s)[j]>>)]

-----------------------------------------------------------------------------
(* Dates.  A datetime is its number of milliseconds since the epoch, UTC.  *)

Digits == {"0", "1", "2", "3", "4", "5", "6", "7", "8", "9"}

DigitVal(c) ==
    CASE c = "0" -> 0 [] c = "1" -> 1 [] c = "2" -> 2 [] c = "3" -> 3
      [] c = "4" -> 4 [] c = "5" -> 5 [] c = "6" -> 6 [] c = "7" -> 7
      [] c = "8" -> 8 [] c = "9" -> 9

\* the number a run of digits writes
RECURSIVE NumVal(_)
NumVal(ds) ==
    IF ds = <<>> THEN 0
    ELSE NumVal(SubSeq(ds, 1, Len(ds) - 1)) * 10 + DigitVal(ds[Len(ds)])

\* a string cut into its runs of digits and its other characters
RECURSIVE Tokens(_)
Tokens(cs) ==
    IF cs = <<>> THEN <<>>
    ELSE LET rest == Tokens(Tail(cs))
         IN  IF cs[1] \notin Digits THEN <<[digits |-> FALSE, c |-> cs[1]]>> \o rest
             ELSE IF rest # <<>> /\ rest[1].digits
                  THEN <<[digits |-> TRUE, ds |-> <<cs[1]>> \o rest[1].ds]>> \o Tail(rest)
             ELSE <<[digits |-> TRUE, ds |-> <<cs[1]>>]>> \o rest

IsLeap(y) == (y % 4 = 0 /\ y % 100 # 0) \/ y % 400 = 0

DaysInMonth(y, m) ==
    IF m = 2 THEN (IF IsLeap(y) THEN 29 ELSE 28)
    ELSE IF m \in {4, 6, 9, 11} THEN 30 ELSE 31

\* days from 1970-01-01 to the date y-m-d of the proleptic Gregorian calendar
DaysFromCivil(y, m, d) ==
    LET yy  == IF m <= 2 THEN y - 1 ELSE y
        era == yy \div 400
        yoe == yy - era * 400
        mp  == IF m > 2 THEN m - 3 ELSE m + 9
        doy == (153 * mp + 2) \div 5 + d - 1
        doe == yoe * 365 + yoe \div 4 - yoe \div 100 + doy
    IN  era * 146097 + doe - 719468

\* datetime(y, m, d, hh, mm, ss) with a UTC offset of off minutes
MakeDate(y, m, d, hh, mm, ss, off) ==
    IF y \in 1..9999 /\ m \in 1..12 /\ d \in 1..DaysInMonth(y, m)
       /\ hh \in 0..23 /\ mm \in 0..59 /\ ss \in 0..59
    THEN LET tod == ((hh * 60 + mm - off) * 60 + ss) * 1000
         IN  [ok |-> TRUE,
              ms |-> BigAdd(timedelta(DaysFromCivil(y, m, d)),
                            <<tod \div Base, tod % Base>>)]
    ELSE [ok |-> FALSE]

IsRun(tk, width) == tk.digits /\ Len(tk.ds) = width
IsSep(tk, chars) == ~tk.digits /\ tk.c \in chars

\* timestamp.replace('Z', '+00:00')
RECURSIVE ReplaceZ(_)
ReplaceZ(cs) ==
    IF cs = <<>> THEN <<>>
    ELSE (IF cs[1] = "Z" THEN <<"+", "0", "0", ":", "0", "0">> ELSE <<cs[1]>>)
         \o ReplaceZ(Tail(cs))

\* datetime.fromisoformat on the extended forms YYYY-MM-DD,
\* YYYY-MM-DD<sep>HH:MM:SS and YYYY-MM-DD<sep>HH:MM:SS(+|-)HH:MM, followed by
\* the replace(tzinfo=utc) of a naive result; every other string is refused
fromisoformat(cs) ==
    LET tk == Tokens(cs)
        n  == Len(tk)
        dateOk == n >= 5 /\ IsRun(tk[1], 4) /\ IsSep(tk[2], {"-"})
                  /\ IsRun(tk[3], 2) /\ IsSep(tk[4], {"-"}) /\ IsRun(tk[5], 2)
        timeOk == n >= 11 /\ ~tk[6].digits /\ IsRun(tk[7], 2)
                  /\ IsSep(tk[8], {":"}) /\ IsRun(tk[9], 2)
                  /\ IsSep(tk[10], {":"}) /\ IsRun(tk[11], 2)
        zoneOk == n = 15 /\ IsSep(tk[12], {"+", "-"}) /\ IsRun(tk[13], 2)
                  /\ IsSep(tk[14], {":"}) /\ IsRun(tk[15], 2)
                  /\ NumVal(tk[13].ds) \in 0..23 /\ NumVal(tk[15].ds) \in 0..59
        y == NumVal(tk[1].ds)
        m == NumVal(tk[3].ds)
        d == NumVal(tk[5].ds)
    IN  IF dateOk /\ n = 5 THEN MakeDate(y, m, d, 0, 0, 0, 0)
        ELSE IF dateOk /\ timeOk /\ n = 11
             THEN MakeDate(y, m, d, NumVal(tk[7].ds), NumVal(tk[9].ds),
                           NumVal(tk[11].ds), 0)
        ELSE IF dateOk /\ timeOk /\ zoneOk
             THEN LET mins == NumVal(tk[13].ds) * 60 + NumVal(tk[15].ds)
                  IN  MakeDate(y, m, d, NumVal(tk[7].ds), NumVal(tk[9].ds),
                               NumVal(tk[11].ds),
                               IF tk[12].c = "+" THEN mins ELSE 0 - mins)
        ELSE [ok |-> FALSE]

\* a %m or %d field: one or two digits, not zero
IsField1(tk) == tk.digits /\ Len(tk.ds) \in 1..2 /\ NumVal(tk.ds) >= 1
\* a %H, %M or %S field: one or two digits
IsField0(tk) == tk.digits /\ Len(tk.ds) \in 1..2

\* datetime.strptime(timestamp, fmt) for the three formats of the code, named
\* by the character between date and time ("" for '%Y-%m-%d'), followed by
\* replace(tzinfo=utc)
strptime(cs, fmt) ==
    LET tk == Tokens(cs)
        n  == Len(tk)
        dateOk == n >= 5 /\ IsRun(tk[1], 4) /\ IsSep(tk[2], {"-"})
                  /\ IsField1(tk[3]) /\ IsSep(tk[4], {"-"}) /\ IsField1(tk[5])
        timeOk == n = 11 /\ IsSep(tk[6], {fmt}) /\ IsField0(tk[7])
                  /\ IsSep(tk[8], {":"}) /\ IsField0(tk[9])
                  /\ IsSep(tk[10], {":"}) /\ IsField0(tk[11])
        y == NumVal(tk[1].ds)
        m == NumVal(tk[3].ds)
        d == NumVal(tk[5].ds)
    IN  IF fmt = "" /\ dateOk /\ n = 5 THEN MakeDate(y, m, d, 0, 0, 0, 0)
        ELSE IF fmt # "" /\ dateOk /\ timeOk
             THEN MakeDate(y, m, d, NumVal(tk[7].ds), NumVal(tk[9].ds),
                           NumVal(tk[11].ds), 0)
        ELSE [ok |-> FALSE]

\* the formats of the fallback, in the order the code tries them
Formats == <<" ", "T", "">>

\* the str branch: fromisoformat, then the formats in order, first success
\* wins; [ok |-> FALSE] is conv_date = None
ParseStr(s) ==
    LET cs  == Expand(s)
        iso == fromisoformat(ReplaceZ(cs))
    IN  IF iso.ok THEN iso
        ELSE IF \E k \in 1..Len(Formats) : strptime(cs, Formats[k]).ok
             THEN strptime(cs, Formats[CHOOSE k \in 1..Len(Formats) :
                                 /\ strptime(cs, Formats[k]).ok
                                 /\ \A j \in 1..(k - 1) : ~strptime(cs, Formats[j]).ok])
        ELSE [ok |-> FALSE]

\* 1e12, the bound between seconds and milliseconds
MsThreshold == <<Base, 0>>

\* the last second datetime can hold, 9999-12-31T23:59:59
MaxSeconds == <<253402, 300799>>

\* the int/float branch: datetime.fromtimestamp(..., tz=utc), which raises
\* ValueError beyond year 9999
fromtimestamp(n) ==
    IF BigGT(n, MsThreshold)
    THEN IF BigGT(n, BigAdd(BigMul1000(MaxSeconds), <<0, 999>>))
         THEN Raise("ValueError") ELSE Ok(n)
    ELSE IF BigGT(n, MaxSeconds) THEN Raise("ValueError") ELSE Ok(BigMul1000(n))

-----------------------------------------------------------------------------
(* str() and repr() of a JSON value (strings without quotes or escapes) *)

DigitChar(k) == CASE k = 0 -> "0" [] k = 1 -> "1" [] k = 2 -> "2" [] k = 3 -> "3"
                  [] k = 4 -> "4" [] k = 5 -> "5" [] k = 6 -> "6" [] k = 7 -> "7"
                  [] k = 8 -> "8" [] k = 9 -> "9"

RECURSIVE NatChars(_)
NatChars(k) == IF k < 10 THEN <<DigitChar(k)>>
               ELSE NatChars(k \div 10) \o <<DigitChar(k % 10)>>

\* exactly six digits
RECURSIVE Pad6(_)
Pad6(cs) == IF Len(cs) >= 6 THEN cs ELSE Pad6(<<"0">> \o cs)

BigChars(n) == IF n[1] = 0 THEN NatChars(n[2])
               ELSE NatChars(n[1]) \o Pad6(NatChars(n[2]))

RECURSIVE Repr(_)
RECURSIVE ReprItems(_)
RECURSIVE ReprPairs(_)
Repr(v) ==
    CASE v.t = "null" -> Lit(<<"N", "o", "n", "e">>)
      [] v.t = "bool" -> IF v.b THEN Lit(<<"T", "r", "u", "e">>)
                         ELSE Lit(<<"F", "a", "l", "s", "e">>)
      [] v.t = "num"  -> Lit(BigChars(v.n))
      [] v.t = "str"  -> Concat(Concat(Lit(<<"'">>), v.s), Lit(<<"'">>))
      [] v.t = "list" -> Concat(Concat(Lit(<<"[">>), ReprItems(v.l)), Lit(<<"]">>))
      [] v.t = "dict" -> Concat(Concat(Lit(<<"{">>), ReprPairs(v.d)), Lit(<<"}">>))
ReprItems(l) ==
    IF l = <<>> THEN <<>>
    ELSE IF Len(l) = 1 THEN Repr(l[1])
    ELSE Concat(Concat(Repr(l[1]), Lit(<<",", " ">>)), ReprItems(Tail(l)))
ReprPairs(d) ==
    LET one == Concat(Concat(Repr(S(KeyChars(d[1][1]))), Lit(<<":", " ">>)),
                      Repr(d[1][2]))
    IN  IF d = <<>> THEN <<>>
        ELSE IF Len(d) = 1 THEN one
        ELSE Concat(Concat(one, Lit(<<",", " ">>)), ReprPairs(Tail(d)))

\* str(v)
PyStr(v) == IF v.t = "str" THEN v.s ELSE Repr(v)

\* a or b
Or(a, c) == IF Truthy(a) THEN a ELSE c

-----------------------------------------------------------------------------
(* Classification of one record: lines 64-134 *)

BucketNames == <<"last-3-months", "3-6-months", "6-12-months", "older">>

TopFields == <<"create_time", "created_at", "timestamp", "created", "date",
               "updated_at", "update_time">>

MetaFields == <<"create_time", "created_at", "timestamp", "created", "date">>

\* mutant: a falsy value does not end the search
RECURSIVE LookupSkipFalsy(_, _, _)
LookupSkipFalsy(fields, c, timestamp) ==
    IF fields = <<>> THEN Ok(timestamp)
    ELSE LET has == Contains(fields[1], c)
         IN  IF has.raise THEN has
             ELSE IF has.v /\ ~Subscript(c, fields[1]).raise
                     /\ Truthy(Subscript(c, fields[1]).v)
                  THEN Subscript(c, fields[1])
             ELSE LookupSkipFalsy(Tail(fields), c, timestamp)

\* for field in fields: if field in c: timestamp = c[field]; break
RECURSIVE Lookup(_, _, _)
Lookup(fields, c, timestamp) ==
    IF fields = <<>> THEN Ok(timestamp)
    ELSE LET has == Contains(fields[1], c)
         IN  IF has.raise THEN has
             ELSE IF has.v THEN Subscript(c, fields[1])
             ELSE Lookup(Tail(fields), c, timestamp)

\* the value of `timestamp` when line 80 tests it
ResolveTimestamp(conv) ==
    LET top == Lookup(TopFields, conv, Null)
    IN  IF top.raise \/ Truthy(top.v) THEN top
        ELSE LET has == Contains("metadata", conv)
             IN  IF has.raise THEN has
                 ELSE IF ~has.v THEN top
                 ELSE LET metadata == Subscript(conv, "metadata")
                      IN  IF metadata.raise THEN metadata
                          ELSE Lookup(MetaFields, metadata.v, top.v)

\* conv_date of a truthy timestamp: [ok |-> FALSE] is None
ParseTimestamp(timestamp) ==
    CASE timestamp.t = "num" ->
            LET d == fromtimestamp(timestamp.n)
            IN  IF d.raise THEN d ELSE Ok([ok |-> TRUE, ms |-> d.v])
      [] timestamp.t = "bool" ->
            Ok([ok |-> TRUE, ms |-> BigMul1000(<<0, IF timestamp.b THEN 1 ELSE 0>>)])
      [] timestamp.t = "str" -> Ok(ParseStr(timestamp.s))
      [] OTHER -> Ok([ok |-> FALSE])

three_months_ago(t) == BigSub(t, timedelta(90))
six_months_ago(t) == BigSub(t, timedelta(180))
twelve_months_ago(t) == BigSub(t, timedelta(365))

\* mutant: the comparisons are strict
BucketOfStrict(conv_date, t) ==
    IF BigGT(conv_date, three_months_ago(t)) THEN "last-3-months"
    ELSE IF BigGT(conv_date, six_months_ago(t)) THEN "3-6-months"
    ELSE IF BigGT(conv_date, twelve_months_ago(t)) THEN "6-12-months"
    ELSE "older"

\* the if/elif chain of lines 127-134
BucketOf(conv_date, t) ==
    IF BigGE(conv_date, three_months_ago(t)) THEN "last-3-months"
    ELSE IF BigGE(conv_date, six_months_ago(t)) THEN "3-6-months"
    ELSE IF BigGE(conv_date, twelve_months_ago(t)) THEN "6-12-months"
    ELSE "older"

\* the bucket one iteration of the loop appends conv to, or the exception
Classify(conv, t) ==
    LET timestamp == ResolveTimestamp(conv)
    IN  IF timestamp.raise THEN timestamp
        ELSE IF ~Truthy(timestamp.v) THEN Ok("older")
        ELSE LET conv_date == ParseTimestamp(timestamp.v)
             IN  IF conv_date.raise THEN conv_date
                 ELSE IF ~conv_date.v.ok THEN Ok("older")
                 ELSE Ok(BucketOf(conv_date.v.ms, t))

-----------------------------------------------------------------------------
(* minimize_conv: lines 137-184 *)

\* the content limit of lines 156, 168 and 177
ContentLimit == 5000

\* the title limit of line 183
TitleLimit == 100

Unknown == S(<<"u", "n", "k", "n", "o", "w", "n">>)

\* ' '.join(str(part) for part in content_parts if part)
RECURSIVE JoinParts(_)
JoinParts(parts) ==
    IF parts = <<>> THEN <<>>
    ELSE LET rest == JoinParts(Tail(parts))
         IN  IF ~Truthy(parts[1]) THEN rest
             ELSE IF \A k \in 2..Len(parts) : ~Truthy(parts[k]) THEN PyStr(parts[1])
             ELSE Concat(Concat(PyStr(parts[1]), Lit(<<" ">>)), rest)

\* the body of the loop of lines 146-157 for one node: the messages it appends
NodeMessages(node) ==
    LET message == Get(node, "message", Null)
    IN  IF message.raise THEN message
        ELSE IF ~Truthy(message.v) THEN Ok(<<>>)
        ELSE LET content == Get(message.v, "content", Null)
             IN  IF content.raise THEN content
                 ELSE IF ~Truthy(content.v) THEN Ok(<<>>)
                 ELSE LET content_parts == Get(content.v, "parts", List(<<>>))
                      IN  IF content_parts.raise THEN content_parts
                          ELSE IF ~Truthy(content_parts.v) THEN Ok(<<>>)
                          ELSE IF PyLen(content_parts.v).raise THEN Raise("TypeError")
                          ELSE LET joined == JoinParts(Elements(content_parts.v))
                                   author == Get(message.v, "author", Dict(<<>>))
                               IN  IF ~StripNonEmpty(joined) THEN Ok(<<>>)
                                   ELSE IF author.raise THEN author
                                   ELSE LET role == Get(author.v, "role", Unknown)
                                        IN  IF role.raise THEN role
                                            ELSE Ok(<<[role |-> role.v,
                                                       content |-> Slice(joined, ContentLimit)]>>)

\* the body of the loop of lines 163-169 for one element of 'messages'
MsgMessages(msg) ==
    LET c == Get(msg, "content", Null)
    IN  IF c.raise THEN c
        ELSE LET content == Or(Or(c.v, Get(msg, "text", Null).v), Str(<<>>))
             IN  IF ~Truthy(content) THEN Ok(<<>>)
                 ELSE Ok(<<[role |-> Get(msg, "role", Get(msg, "author", Unknown).v).v,
                            content |-> Slice(PyStr(content), ContentLimit)]>>)

\* the body of the loop of lines 173-178 for one element of 'items'
ItemMessages(item) ==
    IF item.t = "dict" /\ HasKey(item, "content")
    THEN Ok(<<[role |-> Get(item, "role", Unknown).v,
               content |-> Slice(PyStr(Item(item, "content")), ContentLimit)]>>)
    ELSE Ok(<<>>)

\* a for loop that appends Body(element) for each element, or raises
RECURSIVE Collect(_, _)
Collect(Body(_), elems) ==
    IF elems = <<>> THEN Ok(<<>>)
    ELSE LET one == Body(elems[1])
         IN  IF one.raise THEN one
             ELSE LET rest == Collect(Body, Tail(elems))
                  IN  IF rest.raise THEN rest ELSE Ok(one.v \o rest.v)

\* the values of a dict in document order
Values(v) == [j \in 1..Len(v.d) |-> v.d[j][2]]

\* the if/elif/elif of lines 143-178: the list `messages`
ExtractMessages(conv) ==
    LET hasMapping == Contains("mapping", conv)
        hasMessages == Contains("messages", conv)
        hasItems == Contains("items", conv)
    IN  IF hasMapping.raise THEN hasMapping
        ELSE IF hasMapping.v
        THEN LET msg_list == Subscript(conv, "mapping")
             IN  IF msg_list.raise THEN msg_list
                 ELSE IF msg_list.v.t = "dict"
                      THEN Collect(NodeMessages, Values(msg_list.v))
                 ELSE Ok(<<>>)
        ELSE IF hasMessages.v
        THEN LET msg_list == Subscript(conv, "messages")
             IN  IF msg_list.raise THEN msg_list
                 ELSE IF msg_list.v.t = "list"
                      THEN Collect(MsgMessages, msg_list.v.l)
                 ELSE Ok(<<>>)
        ELSE IF hasItems.v
        THEN LET items == Subscript(conv, "items")
             IN  IF items.raise THEN items
                 ELSE IF PyLen(items.v).raise THEN Raise("TypeError")
                 ELSE Collect(ItemMessages, Elements(items.v))
        ELSE Ok(<<>>)

minimize_conv(conv) ==
    LET messages == ExtractMessages(conv)
        create_time == Get(conv, "create_time", Null)
    IN  IF messages.raise THEN messages
        ELSE IF create_time.raise THEN create_time
        ELSE Ok([messages |-> messages.v,
                 timestamp |-> Or(Or(create_time.v, Get(conv, "created_at", Null).v),
                                  Get(conv, "timestamp", Null).v),
                 title |-> Slice(PyStr(Get(conv, "title", Str(<<>>)).v), TitleLimit)])

-----------------------------------------------------------------------------
(* The loader: lines 20-47 *)

\* an input path holds no file, bytes that are not UTF-8, text that is not
\* JSON, or a JSON document
Missing == [kind |-> "missing"]
Undecodable == [kind |-> "undecodable"]
Garbage == [kind |-> "garbage"]
Json(v) == [kind |-> "json", doc |-> v]

\* mutant: 'items' is looked up before 'conversations'
NormalizeShapeItemsFirst(d) ==
    IF d.t = "dict"
    THEN IF HasKey(d, "items") THEN [ok |-> TRUE, v |-> Item(d, "items")]
         ELSE IF HasKey(d, "conversations") THEN [ok |-> TRUE, v |-> Item(d, "conversations")]
         ELSE LET lists == SelectSeq(Values(d), LAMBDA v : v.t = "list")
              IN  [ok |-> TRUE, v |-> IF lists # <<>> THEN lists[1] ELSE List(<<>>)]
    ELSE IF d.t = "list" THEN [ok |-> TRUE, v |-> d]
    ELSE [ok |-> FALSE]

\* lines 31-45: the conversations of a parsed document; ok is FALSE on the
\* else branch (unexpected data structure)
NormalizeShape(d) ==
    IF d.t = "dict"
    THEN IF HasKey(d, "conversations") THEN [ok |-> TRUE, v |-> Item(d, "conversations")]
         ELSE IF HasKey(d, "items") THEN [ok |-> TRUE, v |-> Item(d, "items")]
         ELSE LET lists == SelectSeq(Values(d), LAMBDA v : v.t = "list")
              IN  [ok |-> TRUE, v |-> IF lists # <<>> THEN lists[1] ELSE List(<<>>)]
    ELSE IF d.t = "list" THEN [ok |-> TRUE, v |-> d]
    ELSE [ok |-> FALSE]

-----------------------------------------------------------------------------
(* The state machine *)

NoFile == [state |-> "absent"]
\* a bucket file left by an earlier execution of the script
StaleFile == [state |-> "stale"]
Written(c, minimal) == [state |-> "written", by |-> c, data |-> minimal]

EmptyBuckets == [n \in {BucketNames[k] : k \in 1..4} |-> <<>>]

\* what a pair's directories hold before the script starts: no export
\* directory, an export directory without split/, an empty split/, or a
\* split/ with the four files of an earlier execution
DirStates == {"none", "export", "split", "split_stale"}

InitFiles(d) == [n \in DOMAIN EmptyBuckets |->
                    IF d = "split_stale" THEN StaleFile ELSE NoFile]

InitLocals ==
    /\ data = Null
    /\ conversations = Null
    /\ now = <<0, 0>>
    /\ buckets = EmptyBuckets
    /\ i = 1
    /\ b = 1

Init ==
    /\ call = 1
    /\ pc = "mkdir"
    /\ dirs \in [1..2 -> DirStates]
    /\ files = [c \in 1..2 |-> InitFiles(dirs[c])]
    /\ status = [c \in 1..2 |-> "pending"]
    /\ InitLocals

\* an uncaught exception ends the program
Uncaught(where) ==
    /\ pc' = "raised"
    /\ status' = [status EXCEPT ![call] = where]

\* a return from split_conversations_by_time
Returns(how) ==
    /\ pc' = "returned"
    /\ status' = [status EXCEPT ![call] = how]

\* lines 15-16: output_path.mkdir(exist_ok=True), without parents
Mkdir ==
    /\ pc = "mkdir"
    /\ IF dirs[call] = "none"
       THEN Uncaught("raised_mkdir") /\ UNCHANGED dirs
       ELSE /\ dirs' = [dirs EXCEPT ![call] = IF @ = "export" THEN "split" ELSE @]
            /\ pc' = "load"
            /\ UNCHANGED status
    /\ UNCHANGED <<call, files, data, conversations, now, buckets, i, b>>

\* lines 19-61: open and parse the input, normalize its shape, print the
\* count, capture now and create the buckets
Load(inputs, nows) ==
    /\ pc = "load"
    /\ \E f \in inputs, t \in nows :
        IF f.kind = "missing"
        THEN Returns("not_found") /\ UNCHANGED <<data, conversations, now>>
        ELSE IF f.kind = "undecodable"
        THEN Uncaught("raised_load") /\ UNCHANGED <<data, conversations, now>>
        ELSE IF f.kind = "garbage"
        THEN Returns("invalid_json") /\ UNCHANGED <<data, conversations, now>>
        ELSE /\ data' = f.doc
             /\ IF ~NormalizeShape(f.doc).ok
                THEN Returns("bad_structure") /\ UNCHANGED <<conversations, now>>
                ELSE /\ conversations' = NormalizeShape(f.doc).v
                     /\ IF PyLen(NormalizeShape(f.doc).v).raise
                        THEN Uncaught("raised_len") /\ UNCHANGED now
                        ELSE pc' = "classify" /\ now' = t /\ UNCHANGED status
    /\ UNCHANGED <<call, dirs, files, buckets, i, b>>

\* mutant: the bucket is assigned the record instead of being appended to
AppendedOverwrite(bs, name, conv) == [bs EXCEPT ![name] = <<conv>>]

\* buckets[name].append(conv)
Appended(bs, name, conv) == [bs EXCEPT ![name] = Append(@, conv)]

\* one iteration of the loop of lines 64-134
ClassifyStep ==
    /\ pc = "classify"
    /\ i <= Len(Elements(conversations))
    /\ LET conv == Elements(conversations)[i]
           r == Classify(conv, now)
       IN  IF r.raise
           THEN Uncaught("raised_classify") /\ UNCHANGED <<buckets, i>>
           ELSE /\ buckets' = Appended(buckets, r.v, conv)
                /\ i' = i + 1
                /\ UNCHANGED <<pc, status>>
    /\ UNCHANGED <<call, dirs, files, data, conversations, now, b>>

\* the loop of lines 64-134 is exhausted
ClassifyEnd ==
    /\ pc = "classify"
    /\ i > Len(Elements(conversations))
    /\ pc' = "emit"
    /\ UNCHANGED <<call, dirs, files, data, conversations, now, buckets, i, b, status>>

MinimizeOne(conv) ==
    LET m == minimize_conv(conv)
    IN  IF m.raise THEN m ELSE Ok(<<m.v>>)

\* mutant: the file is written for an empty bucket too
EmittedAlways(old, c, members, minimal) == Written(c, minimal)

\* lines 189-199 for one bucket: the file's new content, given its old one
Emitted(old, c, members, minimal) ==
    IF members = <<>> THEN old ELSE Written(c, minimal)

\* one iteration of the loop of lines 188-204
EmitStep ==
    /\ pc = "emit"
    /\ b <= Len(BucketNames)
    /\ LET bucket_name == BucketNames[b]
           members == buckets[bucket_name]
           minimal == Collect(MinimizeOne, members)
       IN  IF minimal.raise
           THEN Uncaught("raised_minimize") /\ UNCHANGED <<files, b>>
           ELSE /\ files' = [files EXCEPT ![call][bucket_name] =
                                Emitted(@, call, members, minimal.v)]
                /\ b' = b + 1
                /\ UNCHANGED <<pc, status>>
    \* the loop variable of line 188 rebinds `conversations`
    /\ conversations' = List(buckets[BucketNames[b]])
    /\ UNCHANGED <<call, dirs, data, now, buckets, i>>

\* lines 206-211: the loop is exhausted, the summary is printed, the call
\* returns
EmitEnd ==
    /\ pc = "emit"
    /\ b > Len(BucketNames)
    /\ Returns("done")
    /\ UNCHANGED <<call, dirs, files, data, conversations, now, buckets, i, b>>

\* lines 214-226: __main__ goes on to the next call, or ends
NextCall ==
    /\ pc = "returned"
    /\ call' = call + 1
    /\ pc' = IF call = 1 THEN "mkdir" ELSE "exit"
    /\ data' = Null
    /\ conversations' = Null
    /\ now' = <<0, 0>>
    /\ buckets' = EmptyBuckets
    /\ i' = 1
    /\ b' = 1
    /\ UNCHANGED <<dirs, files, status>>

-----------------------------------------------------------------------------
(* Inputs of the model *)

SeqsUpTo(P, n) == UNION {[1..k -> P] : k \in 0..n}

\* 2026-05-28T20:26:40Z as epoch seconds, and as a datetime
TSeconds == <<1780, 0>>
TInstant == BigMul1000(TSeconds)

\* the instants datetime.now may return: the reference instant of the
\* records is 90, 180 or 365 days before now, or one millisecond more
Nows ==
    {BigAdd(TInstant, BigAdd(timedelta(d), <<0, e>>)) : d \in {90, 180, 365}, e \in {0, 1}}
    \cup {BigAdd(TInstant, timedelta(10))}

Hi == S(<<"h", "i">>)
Long(c, d, n) == Str(<<<<c, n>>, <<d, 2>>>>)

\* records that differ in where and how they carry a timestamp
TimePool == {
    Dict(<<<<"create_time", Num(TSeconds)>>>>),
    Dict(<<<<"id", Small(1)>>, <<"create_time", Num(BigAdd(TInstant, <<0, 1>>))>>>>),
    Dict(<<<<"created_at", S(<<"2", "0", "2", "6", "-", "0", "5", "-", "2", "8", "T", "2", "0", ":", "2", "6", ":", "4", "0", "Z">>)>>>>),
    Dict(<<<<"date", S(<<"2", "0", "2", "6", "-", "5", "-", "2", "8">>)>>>>),
    Dict(<<<<"title", Hi>>>>),
    Dict(<<<<"create_time", Small(0)>>, <<"updated_at", Num(TSeconds)>>>>),
    Dict(<<<<"created", Str(<<>>)>>,
           <<"metadata", Dict(<<<<"id", Small(2)>>, <<"created", Num(TSeconds)>>>>)>>>>),
    Dict(<<<<"metadata", Dict(<<<<"create_time", Null>>, <<"date", Num(TSeconds)>>>>)>>>>),
    Dict(<<<<"update_time", S(<<"2", "0", "2", "6", "-", "0", "5", "-", "2", "9", " ", "0", "1", ":", "5", "6", ":", "4", "0", "+", "0", "5", ":", "3", "0">>)>>,
           <<"metadata", Dict(<<<<"create_time", Small(1)>>>>)>>>>),
    Dict(<<<<"created_at", S(<<"y", "e", "s", "t", "e", "r", "d", "a", "y">>)>>>>),
    Dict(<<<<"timestamp", List(<<Num(TSeconds)>>)>>>>),
    Dict(<<<<"title", Hi>>, <<"metadata", Null>>>>),
    Dict(<<<<"create_time", Num(<<300000, 0>>)>>>>)
}

Msg(role, content) == Dict(<<<<"role", role>>, <<"content", content>>>>)
Node(role, parts) ==
    Dict(<<<<"message", Dict(<<<<"author", Dict(<<<<"role", role>>>>)>>,
                              <<"content", Dict(<<<<"parts", List(parts)>>>>)>>>>)>>>>)
User == S(<<"u", "s", "e", "r">>)

\* records that differ in where and how they carry messages and a title
MessagePool == {
    Dict(<<<<"create_time", Num(TSeconds)>>, <<"title", Hi>>,
           <<"mapping", Dict(<<<<"n1", Node(User, <<Hi, Str(<<>>), Small(7), Hi>>)>>,
                               <<"n2", Dict(<<<<"message", Null>>>>)>>>>)>>>>),
    Dict(<<<<"mapping", Dict(<<<<"n1", Node(User, <<Long("a", "b", ContentLimit - 2), Hi>>)>>,
                               <<"n2", Node(User, <<Str(<<<<" ", 3>>>>)>>)>>>>)>>,
           <<"messages", List(<<Msg(User, Hi)>>)>>,
           <<"items", List(<<Msg(User, Hi)>>)>>>>),
    Dict(<<<<"mapping", Null>>, <<"messages", List(<<Msg(User, Hi)>>)>>>>),
    Dict(<<<<"create_time", Num(TSeconds)>>, <<"title", Long("t", "u", TitleLimit - 1)>>,
           <<"messages", List(<<Msg(User, Long("a", "b", ContentLimit - 1)),
                                Dict(<<<<"author", User>>, <<"text", Hi>>>>),
                                Msg(Null, Str(<<>>)),
                                Msg(User, Long("c", "d", ContentLimit - 2))>>)>>>>),
    Dict(<<<<"messages", Dict(<<<<"n1", Msg(User, Hi)>>>>)>>,
           <<"items", List(<<Msg(User, Hi)>>)>>>>),
    Dict(<<<<"title", Null>>,
           <<"items", List(<<Msg(User, Long("a", "b", ContentLimit)), Hi,
                             Dict(<<<<"content", Small(0)>>>>),
                             Dict(<<<<"role", User>>>>)>>)>>>>),
    Dict(<<<<"title", Small(42)>>, <<"timestamp", Small(0)>>>>),
    Dict(<<<<"mapping", Dict(<<<<"n1", Null>>>>)>>>>),
    Dict(<<<<"messages", List(<<Hi>>)>>>>),
    Dict(<<<<"items", Small(3)>>>>)
}

\* a few records of both kinds for the runs of the whole program
BasePool == {
    Dict(<<<<"create_time", Num(TSeconds)>>, <<"title", Hi>>,
           <<"messages", List(<<Msg(User, Hi)>>)>>>>),
    Dict(<<<<"title", Hi>>>>),
    Dict(<<<<"title", Hi>>, <<"metadata", Null>>>>)
}

\* the top-level shapes of a document around a list of records
Shapes(convs, other) == {
    List(convs),
    Dict(<<<<"version", Small(1)>>, <<"conversations", List(convs)>>>>),
    Dict(<<<<"items", List(other)>>, <<"conversations", List(convs)>>>>),
    Dict(<<<<"version", Small(1)>>, <<"items", List(convs)>>>>),
    Dict(<<<<"version", Small(1)>>, <<"chats", List(convs)>>, <<"archive", List(other)>>>>)
}

\* documents whose shape is unusual
OddDocuments == {
    Dict(<<<<"version", Small(1)>>>>),
    Dict(<<<<"conversations", Null>>>>),
    Dict(<<<<"conversations", Dict(<<<<"id", Small(1)>>>>)>>>>),
    Small(7),
    Hi
}

ListsOf(pool) == {Json(List(convs)) : convs \in SeqsUpTo(pool, MaxConvs)}

MainInputs ==
    {Missing, Undecodable, Garbage}
    \cup {Json(d) : d \in OddDocuments}
    \cup {Json(d) : d \in UNION {Shapes(convs, <<Dict(<<<<"id", Small(1)>>>>)>>) :
                                    convs \in SeqsUpTo(BasePool, MaxConvs)}}

-----------------------------------------------------------------------------
(* Specifications *)

\* the whole program: both calls of __main__
Next ==
    \/ Mkdir
    \/ Load(MainInputs, {BigAdd(TInstant, timedelta(10))})
    \/ ClassifyStep
    \/ ClassifyEnd
    \/ EmitStep
    \/ EmitEnd
    \/ NextCall

Spec == Init /\ [][Next]_vars

\* the state at the start of the second call when the first input was
\* missing: a state of Spec
InitSecondCall ==
    /\ call = 2
    /\ pc = "mkdir"
    /\ dirs = [c \in 1..2 |-> IF c = 1 THEN "split" ELSE "export"]
    /\ files = [c \in 1..2 |-> InitFiles(dirs[c])]
    /\ status = [c \in 1..2 |-> IF c = 1 THEN "not_found" ELSE "pending"]
    /\ InitLocals

\* the second call on lists of records of TimePool, at every instant of Nows
NextClassify ==
    \/ Mkdir
    \/ Load(ListsOf(TimePool), Nows)
    \/ ClassifyStep
    \/ ClassifyEnd
    \/ EmitStep
    \/ EmitEnd
    \/ NextCall

SpecClassify == InitSecondCall /\ [][NextClassify]_vars

\* the second call on lists of records of MessagePool
NextMinimize ==
    \/ Mkdir
    \/ Load(ListsOf(MessagePool), {BigAdd(TInstant, timedelta(10))})
    \/ ClassifyStep
    \/ ClassifyEnd
    \/ EmitStep
    \/ EmitEnd
    \/ NextCall

SpecMinimize == InitSecondCall /\ [][NextMinimize]_vars

-----------------------------------------------------------------------------
(* Properties *)

Names == {BucketNames[k] : k \in 1..Len(BucketNames)}

\* the current call is in its classification loop, or ended in it
Classifying == pc = "classify" \/ (call \in 1..2 /\ status[call] = "raised_classify")

\* the classification loop of the current call has visited every record
Classified == pc = "classify" /\ i > Len(Elements(conversations))

Count(r, q) == Cardinality({k \in 1..Len(q) : q[k] = r})

Total(bs) == Len(bs["last-3-months"]) + Len(bs["3-6-months"])
             + Len(bs["6-12-months"]) + Len(bs["older"])

Holds(n, r) == \E k \in 1..Len(buckets[n]) : buckets[n][k] = r

MinOf(ks) == CHOOSE k \in ks : \A j \in ks : k <= j

\* C1: when the classification loop has visited every record, every record of
\* the input is in exactly one of the four buckets, as often as it occurs in
\* the input, and the four lengths add up to the number of records; while the
\* loop runs they add up to the number of records visited
C1_Partition ==
    /\ pc = "classify" => Total(buckets) = i - 1
    /\ Classified =>
         LET recs == Elements(conversations)
         IN  /\ Total(buckets) = Len(recs)
             /\ \A k \in 1..Len(recs) :
                   /\ Cardinality({n \in Names : Holds(n, recs[k])}) = 1
                   /\ \A n \in Names :
                         Holds(n, recs[k]) => Count(recs[k], buckets[n]) = Count(recs[k], recs)

\* two records of a finished classification sit in two different buckets
C1_Witness ==
    /\ Classified
    /\ Len(Elements(conversations)) = 2
    /\ \E n, m \in Names : n # m /\ buckets[n] # <<>> /\ buckets[m] # <<>>

\* the record's timestamp resolves to a point in time
HasDate(conv) ==
    LET ts == ResolveTimestamp(conv)
    IN  /\ ~ts.raise
        /\ Truthy(ts.v)
        /\ ~ParseTimestamp(ts.v).raise
        /\ ParseTimestamp(ts.v).v.ok

DateOf(conv) == ParseTimestamp(ResolveTimestamp(conv).v).v.ms

DaysBefore(t, n) == BigSub(t, timedelta(n))

\* C2: at every point of the classification loop, a record whose resolved
\* timestamp is exactly now-90d is in last-3-months, one from now-180d
\* (included) to now-90d (excluded) is in 3-6-months, one from now-365d
\* (included) to now-180d (excluded) is in 6-12-months, and a strictly earlier
\* one is in older
C2_Boundary ==
    pc = "classify" =>
      \A n \in Names : \A k \in 1..Len(buckets[n]) :
        LET c == buckets[n][k]
        IN  HasDate(c) =>
              /\ BigGE(DateOf(c), DaysBefore(now, 90)) => n = "last-3-months"
              /\ (BigLT(DateOf(c), DaysBefore(now, 90))
                  /\ BigGE(DateOf(c), DaysBefore(now, 180))) => n = "3-6-months"
              /\ (BigLT(DateOf(c), DaysBefore(now, 180))
                  /\ BigGE(DateOf(c), DaysBefore(now, 365))) => n = "6-12-months"
              /\ BigLT(DateOf(c), DaysBefore(now, 365)) => n = "older"

\* a record dated exactly now-90d is in last-3-months and one dated a
\* millisecond earlier is in 3-6-months
C2_Witness ==
    /\ pc = "classify"
    /\ \E k \in 1..Len(buckets["last-3-months"]) :
          /\ HasDate(buckets["last-3-months"][k])
          /\ DateOf(buckets["last-3-months"][k]) = DaysBefore(now, 90)
    /\ \E k \in 1..Len(buckets["3-6-months"]) :
          /\ HasDate(buckets["3-6-months"][k])
          /\ BigAdd(DateOf(buckets["3-6-months"][k]), <<0, 1>>) = DaysBefore(now, 90)

\* the record of the loop's current iteration has been visited when the
\* iteration raised
Visited(k) == k < i \/ (k = i /\ call \in 1..2 /\ status[call] = "raised_classify")

FirstPresent(fields, c) ==
    LET present == {k \in 1..Len(fields) : HasKey(c, fields[k])}
    IN  IF present = {} THEN Null ELSE Item(c, fields[MinOf(present)])

\* the value the resolution selects, as the claim describes it
Selected(c) ==
    LET top == FirstPresent(TopFields, c)
    IN  IF Truthy(top) THEN top
        ELSE IF HasKey(c, "metadata") /\ Item(c, "metadata").t = "dict"
                /\ \E k \in 1..Len(MetaFields) : HasKey(Item(c, "metadata"), MetaFields[k])
             THEN FirstPresent(MetaFields, Item(c, "metadata"))
        ELSE top

Parseable(v) ==
    \/ v.t = "num" /\ ~fromtimestamp(v.n).raise
    \/ v.t = "bool"
    \/ v.t = "str" /\ ParseStr(v.s).ok

\* every timestamp value the record carries is falsy, or it carries none
NoTruthyTimestamp(c) ==
    /\ c.t = "dict"
    /\ \A k \in 1..Len(TopFields) :
          HasKey(c, TopFields[k]) => ~Truthy(Item(c, TopFields[k]))
    /\ (HasKey(c, "metadata") /\ Item(c, "metadata").t = "dict") =>
          \A k \in 1..Len(MetaFields) :
              HasKey(Item(c, "metadata"), MetaFields[k])
                  => ~Truthy(Item(Item(c, "metadata"), MetaFields[k]))

\* the timestamp is a string that no accepted format matches
UnparseableString(c) ==
    /\ c.t = "dict"
    /\ Selected(c).t = "str"
    /\ Truthy(Selected(c))
    /\ ~ParseStr(Selected(c).s).ok

\* C3: a record without a recognized timestamp field, with only falsy
\* timestamp values, or with a timestamp string that matches no accepted
\* format, is placed in older and in no other bucket
C3_UnresolvedIsOlder ==
    Classifying =>
      \A k \in 1..Len(Elements(conversations)) :
        LET c == Elements(conversations)[k]
        IN  (Visited(k) /\ (NoTruthyTimestamp(c) \/ UnparseableString(c)))
              => \A n \in Names : Holds(n, c) <=> n = "older"

\* C8: no record makes classification or minimization raise
C8_NeverRaises ==
    \A c \in 1..2 : status[c] \notin {"raised_classify", "raised_minimize"}

Normalized == Classifying \/ (call \in 1..2 /\ status[call] = "raised_len")

\* the emission loop of the current call has started
Emitting ==
    /\ call \in 1..2
    /\ pc = "emit" \/ status[call] \in {"done", "raised_minimize"}

\* the bucket file as it was before the script started
InitialFile(c, n) == InitFiles(dirs[c])[n]

\* C4: a call whose input path does not exist, whose input is not JSON or
\* whose document is neither a mapping nor a sequence reports that and returns:
\* it never ends in an exception and it writes no bucket file
C4_LoaderFailureIsLocal ==
    \A c \in 1..2 :
        /\ dirs[c] = "none" => status[c] \in {"pending", "not_found"}
        /\ status[c] # "raised_load"
        /\ status[c] \in {"not_found", "invalid_json", "bad_structure"}
              => \A n \in Names : files[c][n] = InitialFile(c, n)

\* C5: a bucket the emission loop has visited has its file written by this
\* call if and only if it has a member, the written file holds the minimized
\* members one for one, and the file of an empty bucket and of a bucket not
\* yet visited is as it was before the call; the loop visits the buckets in
\* the order last-3-months, 3-6-months, 6-12-months, older
C5_Emission ==
    Emitting =>
      \A k \in 1..Len(BucketNames) :
        LET n == BucketNames[k]
            f == files[call][n]
        IN  IF k < b
            THEN /\ f.state = "written" <=> buckets[n] # <<>>
                 /\ buckets[n] = <<>> => f = InitialFile(call, n)
                 /\ buckets[n] # <<>> =>
                       /\ f.by = call
                       /\ Len(f.data) = Len(buckets[n])
                       /\ \A j \in 1..Len(buckets[n]) :
                             f.data[j] = minimize_conv(buckets[n][j]).v
            ELSE f = InitialFile(call, n)

\* a completed call wrote the file of a bucket with members and left the
\* stale file of an empty bucket alone
C5_Witness ==
    /\ call \in 1..2
    /\ status[call] = "done"
    /\ \E n, m \in Names :
          /\ buckets[n] # <<>> /\ files[call][n].state = "written"
          /\ buckets[m] = <<>> /\ files[call][m] = StaleFile

\* C6: a mapping with 'conversations' yields that value, else a mapping with
\* 'items' yields that value, else a mapping yields its first value in
\* document order that is a sequence, or the empty sequence when it has none,
\* and a sequence yields itself; none of these is refused
C6_ShapeNormalization ==
    /\ Normalized =>
         /\ data.t \in {"dict", "list"}
         /\ data.t = "list" => conversations = data
         /\ (data.t = "dict" /\ HasKey(data, "conversations"))
               => conversations = Item(data, "conversations")
         /\ (data.t = "dict" /\ ~HasKey(data, "conversations") /\ HasKey(data, "items"))
               => conversations = Item(data, "items")
         /\ (data.t = "dict" /\ ~HasKey(data, "conversations") /\ ~HasKey(data, "items"))
               => \/ \E j \in 1..Len(data.d) :
                        /\ data.d[j][2].t = "list"
                        /\ \A h \in 1..(j - 1) : data.d[h][2].t # "list"
                        /\ conversations = data.d[j][2]
                  \/ /\ \A j \in 1..Len(data.d) : data.d[j][2].t # "list"
                     /\ conversations = List(<<>>)
    /\ \A c \in 1..2 : (c = call /\ status[c] = "bad_structure")
                          => data.t \notin {"dict", "list"}

\* a mapping that holds 'items' before 'conversations' yields the value of
\* 'conversations'
C6_Witness ==
    /\ Normalized
    /\ data.t = "dict" /\ HasKey(data, "conversations") /\ HasKey(data, "items")
    /\ Item(data, "items") # Item(data, "conversations")
    /\ conversations = Item(data, "conversations")
    /\ pc = "classify"
    /\ Len(Elements(conversations)) > 0

\* p is a prefix of s (canonical run-length strings)
IsPrefix(p, s) ==
    \/ p = <<>>
    \/ /\ Len(p) <= Len(s)
       /\ \A j \in 1..(Len(p) - 1) : p[j] = s[j]
       /\ p[Len(p)][1] = s[Len(p)][1]
       /\ p[Len(p)][2] <= s[Len(p)][2]

\* p is the first `limit` characters of s, or all of s when s is shorter
IsFirst(p, s, limit) ==
    /\ IsPrefix(p, s)
    /\ SLen(p) = IF SLen(s) < limit THEN SLen(s) ELSE limit

None == [has |-> FALSE]
Text(s) == [has |-> TRUE, text |-> s]

\* the source content of each element of the record's message collection,
\* element by element in source order
SourceTexts(c) ==
    IF HasKey(c, "mapping")
    THEN IF Item(c, "mapping").t # "dict" THEN <<>>
         ELSE [j \in 1..Len(Item(c, "mapping").d) |->
                 LET node == Item(c, "mapping").d[j][2]
                 IN  IF node.t = "dict" /\ HasKey(node, "message")
                        /\ Item(node, "message").t = "dict"
                        /\ HasKey(Item(node, "message"), "content")
                        /\ Item(Item(node, "message"), "content").t = "dict"
                        /\ HasKey(Item(Item(node, "message"), "content"), "parts")
                        /\ Item(Item(Item(node, "message"), "content"), "parts").t = "list"
                     THEN Text(JoinParts(Item(Item(Item(node, "message"), "content"), "parts").l))
                     ELSE None]
    ELSE IF HasKey(c, "messages")
    THEN IF Item(c, "messages").t # "list" THEN <<>>
         ELSE [j \in 1..Len(Item(c, "messages").l) |->
                 LET msg == Item(c, "messages").l[j]
                 IN  IF msg.t = "dict" /\ HasKey(msg, "content") /\ Truthy(Item(msg, "content"))
                     THEN Text(PyStr(Item(msg, "content")))
                     ELSE IF msg.t = "dict" /\ HasKey(msg, "text")
                     THEN Text(PyStr(Item(msg, "text")))
                     ELSE None]
    ELSE IF HasKey(c, "items") /\ Item(c, "items").t = "list"
    THEN [j \in 1..Len(Item(c, "items").l) |->
            LET item == Item(c, "items").l[j]
            IN  IF item.t = "dict" /\ HasKey(item, "content")
                THEN Text(PyStr(Item(item, "content")))
                ELSE None]
    ELSE <<>>

TitleText(c) == IF HasKey(c, "title") THEN PyStr(Item(c, "title")) ELSE <<>>

\* C7: in every minimized conversation a call has written, the title is the
\* first 100 characters of the record's title (empty when it has none), and
\* the messages come from elements of the record's message collection in
\* source order, each content being the first 5000 characters of its source
C7_Truncation ==
    Emitting =>
      \A n \in Names :
        files[call][n].state = "written" =>
          \A j \in 1..Len(files[call][n].data) :
            LET c == buckets[n][j]
                m == files[call][n].data[j]
                src == SourceTexts(c)
            IN  /\ IsFirst(m.title, TitleText(c), TitleLimit)
                /\ SLen(m.title) <= TitleLimit
                /\ \A q \in 1..Len(m.messages) : SLen(m.messages[q].content) <= ContentLimit
                /\ \E f \in [1..Len(m.messages) -> 1..Len(src)] :
                      /\ \A q, r \in 1..Len(m.messages) : q < r => f[q] < f[r]
                      /\ \A q \in 1..Len(m.messages) :
                            /\ src[f[q]].has
                            /\ IsFirst(m.messages[q].content, src[f[q]].text, ContentLimit)

\* a written conversation whose title and whose first and last message were
\* cut at the limits, from a record of the flat-list strategy
C7_Witness ==
    /\ Emitting
    /\ \E n \in Names :
          /\ files[call][n].state = "written"
          /\ \E j \in 1..Len(files[call][n].data) :
                LET c == buckets[n][j]
                    m == files[call][n].data[j]
                IN  /\ HasKey(c, "messages")
                    /\ SLen(TitleText(c)) > TitleLimit
                    /\ SLen(m.title) = TitleLimit
                    /\ Len(m.messages) = 3
                    /\ SLen(m.messages[1].content) = ContentLimit
                    /\ SLen(m.messages[3].content) = ContentLimit
                    /\ m.messages[1].content # m.messages[3].content

\* the messages of the first applicable strategy, as the claim orders them
Prioritized(c) ==
    IF HasKey(c, "mapping") /\ Item(c, "mapping").t = "dict"
    THEN Collect(NodeMessages, Values(Item(c, "mapping")))
    ELSE IF HasKey(c, "messages") /\ Item(c, "messages").t = "list"
    THEN Collect(MsgMessages, Item(c, "messages").l)
    ELSE IF HasKey(c, "items") /\ ~PyLen(Item(c, "items")).raise
    THEN Collect(ItemMessages, Elements(Item(c, "items")))
    ELSE Ok(<<>>)

\* C9: the messages of a written conversation are those of the first
\* applicable strategy: 'mapping' when it is a mapping, else 'messages' when
\* it is a sequence, else 'items', else none
C9_StrategyPriority ==
    Emitting =>
      \A n \in Names :
        files[call][n].state = "written" =>
          \A j \in 1..Len(files[call][n].data) :
            ~Prioritized(buckets[n][j]).raise
              => files[call][n].data[j].messages = Prioritized(buckets[n][j]).v

=============================================================================
